---- MODULE Spec2Model ----
(***************************************************************************)
(* The two project dumpers of the repository (ingestion.py, dump_py.py)    *)
(* and the binary heuristic of ingestion.py, as state machines over a      *)
(* small file system.                                                      *)
(*                                                                         *)
(* A path is a sequence of names below the traversal root (<<>> is the     *)
(* root).  A file's bytes are kept run-length encoded: a sequence of runs  *)
(* [b |-> byte, n |-> count].  The output file is a sequence of tokens,    *)
(* one per write() call of the code.                                       *)
(***************************************************************************)
EXTENDS Integers, Sequences, FiniteSets, TLC

VARIABLES
    prog,        \* which script runs: "ingestion", "dump_py" or "classify"
    dirs,        \* the directories under the root (a set of paths, root included)
    files,       \* the file entries: path -> [k, c, rd]
    outPath,     \* the resolved path of the output file
    outExists,   \* whether the output file exists on disk
    pc,          \* the position of the running script
    todo,        \* os.walk's stack of directories still to be yielded
    cur,         \* dirpath of the directory being processed
    pending,     \* filenames of cur not yet processed
    tree,        \* lines of build_file_tree
    out,         \* what has been written to the output file in this run
    run,         \* how many runs have been started
    prev,        \* what the previous run wrote
    startedWith, \* whether the output file existed when this run started
    prevWith,    \* the same for the previous run
    shuffled,    \* whether the OS listed some directory out of order in this run's dump walk
    sample,      \* the file handed to is_probably_binary alone
    verdict      \* its answer: "none", "binary" or "text"

vars == <<prog, dirs, files, outPath, outExists, pc, todo, cur, pending, tree,
          out, run, prev, startedWith, prevWith, shuffled, sample, verdict>>

fsVars == <<prog, dirs, files, outPath, sample, verdict>>

(***************************************************************************)
(* Bounds of the model.                                                    *)
(***************************************************************************)
MaxFiles == 2
MaxRuns == 2
MaxSampleRuns == 2

(***************************************************************************)
(* Names.  Python compares strings by code point; NameOrder lists every    *)
(* name of the model in that order.                                        *)
(***************************************************************************)
NameOrder ==
    <<".git", "a.md", "build.zig", "k.txt", "lib", "myco_source_dump.txt", "out.txt",
      "src", "z.dat">>

Rank(name) == CHOOSE i \in 1..Len(NameOrder) : NameOrder[i] = name

NameLess(a, b) == Rank(a) < Rank(b)

Root == <<>>

Front(p) == SubSeq(p, 1, Len(p) - 1)

Last(p) == p[Len(p)]

IsPrefix(p, q) == Len(p) <= Len(q) /\ SubSeq(q, 1, Len(p)) = p

Perms(S) ==
    {s \in [1..Cardinality(S) -> S] : \A i, j \in 1..Cardinality(S) : s[i] = s[j] => i = j}

RECURSIVE InsertSorted(_, _)
InsertSorted(x, s) ==
    IF s = <<>> THEN <<x>>
    ELSE IF NameLess(x, Head(s)) THEN <<x>> \o s
    ELSE <<Head(s)>> \o InsertSorted(x, Tail(s))

RECURSIVE sorted(_)
sorted(s) == IF s = <<>> THEN <<>> ELSE InsertSorted(Head(s), sorted(Tail(s)))

(***************************************************************************)
(* File contents and read behaviour.                                       *)
(***************************************************************************)
Run(b, n) == [b |-> b, n |-> n]

\* "hello\r\n"
Hello == <<Run(104, 1), Run(101, 1), Run(108, 2), Run(111, 1), Run(13, 1), Run(10, 1)>>

\* 00 01 02
Blob == <<Run(0, 1), Run(1, 1), Run(2, 1)>>

\* seven 'A' and three 0xFF: exactly 30% of the bytes are not text, and the
\* file is not valid UTF-8
Latin == <<Run(65, 7), Run(255, 3)>>

\* rd: "ok" every read succeeds; "denied" open() raises; "late" the first
\* chunk can be read (rb) but the later text read raises
File(c, rd) == [k |-> "file", c |-> c, rd |-> rd]

TextFile == File(Hello, "ok")
BinFile == File(Blob, "ok")
LatinFile == File(Latin, "ok")
DeniedFile == File(Hello, "denied")
LateFile == File(Hello, "late")

\* a symbolic link to the output file
OutLink == [k |-> "link", c |-> <<>>, rd |-> "ok"]

RECURSIVE Expand(_)
Expand(runs) ==
    IF runs = <<>> THEN <<>>
    ELSE [i \in 1..Head(runs).n |-> Head(runs).b] \o Expand(Tail(runs))

RECURSIVE RunsLen(_)
RunsLen(runs) == IF runs = <<>> THEN 0 ELSE Head(runs).n + RunsLen(Tail(runs))

(***************************************************************************)
(* is_probably_binary (ingestion.py).                                      *)
(***************************************************************************)
chunk_size == 1024

Max(a, b) == IF a >= b THEN a ELSE b

\* f.read(chunk_size): the first chunk_size bytes, or all of a shorter file
RECURSIVE ReadChunk(_, _)
ReadChunk(runs, size) ==
    IF runs = <<>> \/ size = 0 THEN <<>>
    ELSE IF Head(runs).n >= size THEN <<Run(Head(runs).b, size)>>
    ELSE <<Head(runs)>> \o ReadChunk(Tail(runs), size - Head(runs).n)

\* b"\x00" in chunk
HasNull(chunk) == \E i \in 1..Len(chunk) : chunk[i].b = 0 /\ chunk[i].n > 0

\* bytes(range(32, 127)) + b"\n\r\t\b"
text_chars == (32..126) \cup {10, 13, 9, 8}

\* sum(c not in text_chars for c in chunk)
RECURSIVE non_text(_)
non_text(chunk) ==
    IF chunk = <<>> THEN 0
    ELSE (IF Head(chunk).b \in text_chars THEN 0 ELSE Head(chunk).n) + non_text(Tail(chunk))

\* the comparison written >= instead of >
OverThreshold_AtLeast(nt, len) == 10 * nt >= 3 * Max(1, len)

\* non_text > 0.3 * max(1, len(chunk)).  The product is a double; for every
\* length up to 1024 and every count up to the length the comparison of the
\* double agrees with the exact one, which is the one written here.
OverThreshold(nt, len) == 10 * nt > 3 * Max(1, len)

\* the function without its except clause: a failed open() leaves it
is_probably_binary_NoExcept(e) ==
    IF e.rd = "denied" THEN "raise"
    ELSE LET chunk == ReadChunk(e.c, chunk_size) IN
         IF HasNull(chunk) THEN "binary"
         ELSE IF OverThreshold(non_text(chunk), RunsLen(chunk)) THEN "binary"
         ELSE "text"

\* "binary" for True, "text" for False, "raise" for an exception that leaves
\* the function (none does: except Exception returns True).
is_probably_binary(e) ==
    IF e.rd = "denied" THEN "binary"
    ELSE LET chunk == ReadChunk(e.c, chunk_size) IN
         IF HasNull(chunk) THEN "binary"
         ELSE IF OverThreshold(non_text(chunk), RunsLen(chunk)) THEN "binary"
         ELSE "text"

(***************************************************************************)
(* Reading a file as text.                                                 *)
(***************************************************************************)
ReplacementChar == 65533

\* errors="replace": every byte of the model that is not ASCII is 0xFF, which
\* no UTF-8 sequence contains, so each decodes to U+FFFD.
decode_replace(bytes) ==
    [i \in 1..Len(bytes) |-> IF bytes[i] < 128 THEN bytes[i] ELSE ReplacementChar]

\* text mode, newline=None: "\r\n" and "\r" are read as "\n"
RECURSIVE universal_newlines(_)
universal_newlines(s) ==
    IF s = <<>> THEN <<>>
    ELSE IF Head(s) = 13 /\ Len(s) >= 2 /\ s[2] = 10
         THEN <<10>> \o universal_newlines(SubSeq(s, 3, Len(s)))
    ELSE IF Head(s) = 13 THEN <<10>> \o universal_newlines(Tail(s))
    ELSE <<Head(s)>> \o universal_newlines(Tail(s))

\* open(..., "r", encoding="utf-8", errors="replace") and the lines read from it
ReadTextReplace(e) == universal_newlines(decode_replace(Expand(e.c)))

\* open(..., 'r', encoding='utf-8'): strict decoding raises on a byte that is
\* not UTF-8
StrictDecodes(e) == \A i \in 1..Len(e.c) : e.c[i].b < 128

(***************************************************************************)
(* The output file, as the sequence of the strings written to it.          *)
(***************************************************************************)
Tok(t, n, p, c) == [t |-> t, n |-> n, p |-> p, c |-> c]

\* "=== FILE TREE (relative to current directory) ===\n"
TreeHeader == Tok("treehdr", 0, <<>>, <<>>)

\* tree_text: the lines joined by "\n"
TreeText(lines) == Tok("tree", 0, <<>>, lines)

\* "\n\n=== CONCATENATED FILE CONTENTS ===\n\n"
SectionHeader == Tok("sechdr", 0, <<>>, <<>>)

\* n times "\n"
Newlines(n) == Tok("nl", n, <<>>, <<>>)

\* n times "=", then "\n"
Bar(n) == Tok("bar", n, <<>>, <<>>)

\* "FILE: <path>\n"
FileLine(p) == Tok("file", 0, p, <<>>)

\* the text read from a file
Text(c) == Tok("text", 0, <<>>, c)

\* "\n[Could not read file: e]\n" (ingestion), "[Error reading file: e]" (dump_py)
ErrNote == Tok("err", 0, <<>>, <<>>)

\* what a reader of the output file sees while it is being written: the
\* first n tokens have reached the disk
SelfText(n) == Tok("self", n, <<>>, <<>>)

\* "# MYCO PROJECT DUMP\n\n"
Title == Tok("title", 0, <<>>, <<>>)

Line(ind, txt, slash) == [ind |-> ind, txt |-> txt, slash |-> slash]

(***************************************************************************)
(* The file system as the scripts see it.                                  *)
(***************************************************************************)
\* the subdirectories of d, as os.walk finds them
SubdirNames(d) == {Last(p) : p \in {q \in dirs : Len(q) = Len(d) + 1 /\ Front(q) = d}}

\* the non-directory entries of d: files, links, and the output file once it exists
FileNames(d) ==
    {Last(p) : p \in {q \in DOMAIN files : Front(q) = d}}
    \cup (IF outExists /\ Front(outPath) = d THEN {Last(outPath)} ELSE {})

\* Path.resolve(): a link resolves to its target
Resolve(p) == IF p \in DOMAIN files /\ files[p].k = "link" THEN outPath ELSE p

\* the output file while it is open for writing
OutEntry == [k |-> "out", c |-> <<>>, rd |-> "ok"]

Entry(p) == IF Resolve(p) = outPath THEN OutEntry ELSE files[p]

\* open(output_path, "w") needs the parent directory
CanOpen(p) == Front(p) \in dirs

(***************************************************************************)
(* ingestion.py: build_file_tree.                                          *)
(***************************************************************************)
\* dirnames.sort() of build_file_tree
TreeDirnames(listing) == sorted(listing)

\* filenames.sort() of build_file_tree
TreeFilenames(listing) == sorted(listing)

\* the directory line indented by depth levels
TreeDirLine_FullDepth(rel_dir) ==
    IF rel_dir = Root THEN Line(0, ".", FALSE)
    ELSE Line(4 * Len(rel_dir), Last(rel_dir), TRUE)

\* the line of the directory itself: "." for the root, else the name and "/"
\* indented by depth - 1 levels
TreeDirLine(rel_dir) ==
    IF rel_dir = Root THEN Line(0, ".", FALSE)
    ELSE Line(4 * (Len(rel_dir) - 1), Last(rel_dir), TRUE)

\* the line of a file of a directory at the given depth
TreeFileLine(depth, filename) == Line(4 * depth, filename, FALSE)

Children(d, names) == [i \in 1..Len(names) |-> d \o <<names[i]>>]

Unsorted(listing) == listing # sorted(listing)

(***************************************************************************)
(* ingestion.py: main.                                                     *)
(***************************************************************************)
\* main without dirnames.sort()
WalkDirnames_Unsorted(listing) == listing

\* dirnames.sort() of main
WalkDirnames(listing) == sorted(listing)

\* main without filenames.sort()
WalkFilenames_Unsorted(listing) == listing

\* filenames.sort() of main
WalkFilenames(listing) == sorted(listing)

\* the paths compared without resolve()
SkipSelf_ByName(file_path) == file_path = outPath

\* if file_path.resolve() == output_path: continue
SkipSelf(file_path) == Resolve(file_path) = outPath

\* a newline written after the contents of each file
FileBlock_TrailingNewline(file_path, e) ==
    <<Newlines(2), Bar(50), FileLine(file_path), Bar(50)>>
    \o (IF e.rd = "ok" THEN <<Text(ReadTextReplace(e))>> ELSE <<ErrNote>>)
    \o <<Newlines(1)>>

\* the header and the contents main writes for one file
FileBlock(file_path, e) ==
    <<Newlines(2), Bar(50), FileLine(file_path), Bar(50)>>
    \o (IF e.rd = "ok" THEN <<Text(ReadTextReplace(e))>> ELSE <<ErrNote>>)

\* A run of the script begins: root and output_path are resolved and
\* build_file_tree starts its walk.
IngestStart ==
    /\ prog = "ingestion"
    /\ pc \in {"idle", "done"}
    /\ run < MaxRuns
    /\ run' = run + 1
    /\ prev' = out
    /\ prevWith' = startedWith
    /\ startedWith' = outExists
    /\ pc' = "tree"
    /\ todo' = <<Root>>
    /\ cur' = Root
    /\ pending' = <<>>
    /\ tree' = <<>>
    /\ out' = <<>>
    /\ shuffled' = FALSE
    /\ UNCHANGED <<fsVars, outExists>>

\* One iteration of build_file_tree's loop over os.walk.
TreeDir ==
    /\ prog = "ingestion"
    /\ pc = "tree"
    /\ todo # <<>>
    /\ LET d == Head(todo) IN
       \E dl \in Perms(SubdirNames(d)), fl \in Perms(FileNames(d)) :
          LET dn == TreeDirnames(dl)
              fn == TreeFilenames(fl)
          IN /\ tree' = tree \o <<TreeDirLine(d)>>
                          \o [i \in 1..Len(fn) |-> TreeFileLine(Len(d), fn[i])]
             /\ todo' = Children(d, dn) \o Tail(todo)
    /\ UNCHANGED <<fsVars, outExists, pc, cur, pending, out, run, prev, startedWith,
                   prevWith, shuffled>>

\* The output file is opened for writing (created or truncated) and the tree
\* section is written; a missing parent directory is fatal.
OpenOutput ==
    /\ prog = "ingestion"
    /\ pc = "tree"
    /\ todo = <<>>
    /\ IF CanOpen(outPath)
       THEN /\ outExists' = TRUE
            /\ out' = <<TreeHeader, TreeText(tree), SectionHeader>>
            /\ pc' = "walk"
            /\ todo' = <<Root>>
       ELSE /\ pc' = "aborted"
            /\ UNCHANGED <<outExists, out, todo>>
    /\ UNCHANGED <<fsVars, cur, pending, tree, run, prev, startedWith, prevWith, shuffled>>

\* One iteration of main's loop over os.walk: the next directory is yielded
\* and its two lists are sorted.
WalkDir ==
    /\ prog = "ingestion"
    /\ pc = "walk"
    /\ pending = <<>>
    /\ todo # <<>>
    /\ LET d == Head(todo) IN
       \E dl \in Perms(SubdirNames(d)), fl \in Perms(FileNames(d)) :
          /\ cur' = d
          /\ pending' = WalkFilenames(fl)
          /\ todo' = Children(d, WalkDirnames(dl)) \o Tail(todo)
          /\ shuffled' = (shuffled \/ Unsorted(dl) \/ Unsorted(fl))
    /\ UNCHANGED <<fsVars, outExists, pc, tree, out, run, prev, startedWith, prevWith>>

\* One iteration of the loop over filenames.
VisitFile ==
    /\ prog = "ingestion"
    /\ pc = "walk"
    /\ pending # <<>>
    /\ LET file_path == cur \o <<Head(pending)>>
           e == Entry(file_path)
       IN IF SkipSelf(file_path)
          THEN UNCHANGED <<out, pc>>
          ELSE LET binary == is_probably_binary(e) IN
               IF binary = "raise" THEN pc' = "crashed" /\ UNCHANGED out
               ELSE IF binary = "binary" THEN UNCHANGED <<out, pc>>
               ELSE out' = out \o FileBlock(file_path, e) /\ UNCHANGED pc
    /\ pending' = Tail(pending)
    /\ UNCHANGED <<fsVars, outExists, todo, cur, tree, run, prev, startedWith, prevWith, shuffled>>

\* The walk is over: the file is closed and "Done. Written to ..." is printed.
Finish ==
    /\ prog = "ingestion"
    /\ pc = "walk"
    /\ pending = <<>>
    /\ todo = <<>>
    /\ pc' = "done"
    /\ UNCHANGED <<fsVars, outExists, todo, cur, pending, tree, out, run, prev,
                   startedWith, prevWith, shuffled>>

(***************************************************************************)
(* dump_py.py.                                                             *)
(***************************************************************************)
EXTENSIONS == {".zig", ".nix", ".json", ".md", ".txt"}

SKIP_DIRS == {".git", "zig-cache", "zig-out", "myco-test", ".zig-cache"}

output_filename == "myco_source_dump.txt"

\* the suffix filename.endswith() looks at, for the names of the model
Suffix(filename) ==
    CASE filename = "a.md" -> ".md"
      [] filename = "build.zig" -> ".zig"
      [] filename \in {"k.txt", "myco_source_dump.txt", "out.txt"} -> ".txt"
      [] filename = "z.dat" -> ".dat"
      [] OTHER -> ""

is_text_file(filename) == Suffix(filename) \in EXTENSIONS

\* what open(filepath) and f.read() give: the text, or an exception.  A path
\* that resolves to the output file reads what has reached the disk so far:
\* nothing while the writer's buffer has not filled, or what was written.
PyRead(filepath, written) ==
    IF Resolve(filepath) = outPath THEN {SelfText(0), SelfText(written)}
    ELSE IF files[filepath].rd = "ok" /\ StrictDecodes(files[filepath])
         THEN {Text(universal_newlines(Expand(files[filepath].c)))}
    ELSE {ErrNote}

\* what dump_file writes, given what the read gave
dump_file(filepath, body) ==
    <<Newlines(1), Bar(80), FileLine(filepath), Bar(80), Newlines(1), body, Newlines(1)>>

\* dirs[:] = [d for d in dirs if d not in SKIP_DIRS]
PyDirnames(listing) == SelectSeq(listing, LAMBDA d : d \notin SKIP_DIRS)

\* files.sort()
PyFilenames(listing) == sorted(listing)

\* os.path.join(root, file), and the leading "./" removed
PyFilepath(root, file) ==
    LET joined == <<".">> \o root \o <<file>>
    IN IF Head(joined) = "." THEN Tail(joined) ELSE joined

\* A run begins: the output file is opened, the title is written and
\* build.zig, when there is one, is dumped first.
PyStart ==
    /\ prog = "dump_py"
    /\ pc = "idle"
    /\ run' = run + 1
    /\ prev' = out
    /\ prevWith' = startedWith
    /\ startedWith' = outExists
    /\ outExists' = TRUE
    /\ IF <<"build.zig">> \in DOMAIN files
       THEN \E body \in PyRead(<<"build.zig">>, 5) :
               out' = <<Title>> \o dump_file(<<"build.zig">>, body)
       ELSE out' = <<Title>>
    /\ pc' = "walk"
    /\ todo' = <<Root>>
    /\ cur' = Root
    /\ pending' = <<>>
    /\ tree' = <<>>
    /\ shuffled' = FALSE
    /\ UNCHANGED fsVars

\* One iteration of the loop over os.walk(".").
PyWalkDir ==
    /\ prog = "dump_py"
    /\ pc = "walk"
    /\ pending = <<>>
    /\ todo # <<>>
    /\ LET d == Head(todo) IN
       \E dl \in Perms(SubdirNames(d)), fl \in Perms(FileNames(d)) :
          /\ cur' = d
          /\ pending' = PyFilenames(fl)
          /\ todo' = Children(d, PyDirnames(dl)) \o Tail(todo)
          /\ shuffled' = (shuffled \/ Unsorted(dl) \/ Unsorted(fl))
    /\ UNCHANGED <<fsVars, outExists, pc, tree, out, run, prev, startedWith, prevWith>>

\* One iteration of the loop over files.
PyVisitFile ==
    /\ prog = "dump_py"
    /\ pc = "walk"
    /\ pending # <<>>
    /\ LET file == Head(pending) IN
       IF \/ file = "build.zig"
          \/ file = "dump_project.py"
          \/ file = output_filename
          \/ ~is_text_file(file)
       THEN UNCHANGED out
       ELSE LET filepath == PyFilepath(cur, file) IN
            \E body \in PyRead(filepath, Len(out) + 5) :
               out' = out \o dump_file(filepath, body)
    /\ pending' = Tail(pending)
    /\ UNCHANGED <<fsVars, outExists, pc, todo, cur, tree, run, prev, startedWith,
                   prevWith, shuffled>>

\* The walk is over: the file is closed and "Done! ..." is printed.
PyFinish ==
    /\ prog = "dump_py"
    /\ pc = "walk"
    /\ pending = <<>>
    /\ todo = <<>>
    /\ pc' = "done"
    /\ UNCHANGED <<fsVars, outExists, todo, cur, pending, tree, out, run, prev,
                   startedWith, prevWith, shuffled>>

(***************************************************************************)
(* is_probably_binary applied to one file.                                 *)
(***************************************************************************)
Classify ==
    /\ prog = "classify"
    /\ verdict = "none"
    /\ verdict' = is_probably_binary(sample)
    /\ UNCHANGED <<prog, dirs, files, outPath, sample, outExists, pc, todo, cur, pending,
                   tree, out, run, prev, startedWith, prevWith, shuffled>>

(***************************************************************************)
(* The file systems the scripts are run on.                                *)
(***************************************************************************)
DirCands == {<<"lib">>, <<"src">>, <<"src", "lib">>}

\* the names a file of the root may have, and those a file of a subdirectory may have
RootNames == {"a.md", "k.txt"}

SubNames == {"a.md"}

IngestKinds == {TextFile, BinFile, LatinFile, DeniedFile, LateFile, OutLink}

IngestOutputs == {<<"out.txt">>, <<"src", "out.txt">>}

DirConfigs(cands) ==
    {{Root} \cup D : D \in {E \in SUBSET cands : \A p \in E : Len(p) > 1 => Front(p) \in E}}

Positions(D, rootNames, subNames) ==
    {<<n>> : n \in rootNames} \cup {d \o <<n>> : d \in D \ {Root}, n \in subNames}

FileConfigs(P, kinds) ==
    UNION {[Q -> kinds] : Q \in {R \in SUBSET P : Cardinality(R) <= MaxFiles}}

NoSample == File(<<>>, "ok")

Idle ==
    /\ pc = "idle"
    /\ todo = <<>>
    /\ cur = Root
    /\ pending = <<>>
    /\ tree = <<>>
    /\ out = <<>>
    /\ run = 0
    /\ prev = <<>>
    /\ startedWith = FALSE
    /\ prevWith = FALSE
    /\ shuffled = FALSE

Init ==
    /\ prog = "ingestion"
    /\ dirs \in DirConfigs(DirCands)
    /\ files \in FileConfigs(Positions(dirs, RootNames, SubNames), IngestKinds)
    /\ outPath \in IngestOutputs
    /\ outExists \in (IF CanOpen(outPath) THEN BOOLEAN ELSE {FALSE})
    /\ sample = NoSample
    /\ verdict = "none"
    /\ Idle

Next ==
    \/ IngestStart
    \/ TreeDir
    \/ OpenOutput
    \/ WalkDir
    \/ VisitFile
    \/ Finish

Spec == Init /\ [][Next]_vars

DirCandsPy == {<<".git">>, <<"lib">>, <<"src">>}

PyRootNames == {"a.md", "build.zig", "z.dat"}

PyKinds == {TextFile, LatinFile, OutLink}

InitPy ==
    /\ prog = "dump_py"
    /\ dirs \in DirConfigs(DirCandsPy)
    /\ files \in FileConfigs(Positions(dirs, PyRootNames, SubNames), PyKinds)
    /\ outPath = <<output_filename>>
    /\ outExists \in BOOLEAN
    /\ sample = NoSample
    /\ verdict = "none"
    /\ Idle

NextPy ==
    \/ PyStart
    \/ PyWalkDir
    \/ PyVisitFile
    \/ PyFinish

SpecPy == InitPy /\ [][NextPy]_vars

\* both dumpers
InitBoth == Init \/ InitPy

NextBoth == Next \/ NextPy

SpecBoth == InitBoth /\ [][NextBoth]_vars

SampleBytes == {0, 7, 8, 10, 13, 31, 32, 126, 127, 255}

SampleLens == {1, 3, 7, 300, 700, 724}

SampleRuns == {Run(b, n) : b \in SampleBytes, n \in SampleLens}

SampleContents == UNION {[1..k -> SampleRuns] : k \in 0..MaxSampleRuns}

InitClassify ==
    /\ prog = "classify"
    /\ dirs = {Root}
    /\ files = <<>>
    /\ outPath = <<"out.txt">>
    /\ outExists = FALSE
    /\ \E c \in SampleContents, rd \in {"ok", "denied"} : sample = File(c, rd)
    /\ verdict = "none"
    /\ Idle

NextClassify == Classify

SpecClassify == InitClassify /\ [][NextClassify]_vars

(***************************************************************************)
(* What the properties below speak of.                                     *)
(***************************************************************************)
Min(a, b) == IF a <= b THEN a ELSE b

\* the positions of the "FILE: ..." lines in the output
FileIdx == {i \in 1..Len(out) : out[i].t = "file"}

\* the paths of the FILE blocks, in the order written
BlockPaths ==
    LET B == SelectSeq(out, LAMBDA t : t.t = "file") IN [i \in 1..Len(B) |-> B[i].p]

BlockCount(p) == Cardinality({i \in FileIdx : out[i].p = p})

\* The classification rule as the specification words it, on the bytes at
\* positions 1..1024 of the file: run i covers the positions after RunStart(i).
InTextSet(b) == (32 <= b /\ b <= 126) \/ b \in {10, 13, 9, 8}

RECURSIVE RunStart(_, _)
RunStart(runs, i) == IF i = 1 THEN 0 ELSE RunStart(runs, i - 1) + runs[i - 1].n

InWindow(runs, i) == Max(0, Min(RunStart(runs, i) + runs[i].n, 1024) - RunStart(runs, i))

RECURSIVE WindowCount(_, _, _)
WindowCount(runs, i, nonText) ==
    IF i = 0 THEN 0
    ELSE (IF nonText => ~InTextSet(runs[i].b) THEN InWindow(runs, i) ELSE 0)
         + WindowCount(runs, i - 1, nonText)

WindowLen(runs) == WindowCount(runs, Len(runs), FALSE)

WindowNonText(runs) == WindowCount(runs, Len(runs), TRUE)

WindowHasNull(runs) == \E i \in 1..Len(runs) : runs[i].b = 0 /\ InWindow(runs, i) > 0

RuleBinary(runs) == WindowHasNull(runs) \/ 10 * WindowNonText(runs) > 3 * WindowLen(runs)

\* Classify of the specification: a read error is Binary
ClassifiedBinary(e) == e.rd = "denied" \/ RuleBinary(e.c)

\* The top-down order of the entries of a tree.  An entry is a directory or
\* a file; its anchor is the directory whose line it follows.
Dir(p) == [d |-> TRUE, p |-> p]

Fil(p) == [d |-> FALSE, p |-> p]

Anchor(x) == IF x.d THEN x.p ELSE Front(x.p)

ProperPrefix(a, b) == IsPrefix(a, b) /\ a # b

FirstDiff(a, b) ==
    CHOOSE i \in 1..Min(Len(a), Len(b)) : a[i] # b[i] /\ \A j \in 1..(i - 1) : a[j] = b[j]

TopDownBefore(x, y) ==
    LET ax == Anchor(x)
        ay == Anchor(y)
    IN IF ax = ay
       THEN (x.d /\ ~y.d) \/ (~x.d /\ ~y.d /\ NameLess(Last(x.p), Last(y.p)))
       ELSE IF ProperPrefix(ax, ay) THEN TRUE
       ELSE IF ProperPrefix(ay, ax) THEN FALSE
       ELSE NameLess(ax[FirstDiff(ax, ay)], ay[FirstDiff(ax, ay)])

\* the text of each sample as Python reads it
ExpectedText(c) ==
    CASE c = Hello -> <<104, 101, 108, 108, 111, 10>>
      [] c = Latin -> <<65, 65, 65, 65, 65, 65, 65, 65533, 65533, 65533>>
      [] c = Blob -> <<0, 1, 2>>
      [] OTHER -> <<>>

\* the entries on disk when build_file_tree ran in this run
ListedEntries ==
    {Dir(d) : d \in dirs} \cup {Fil(p) : p \in DOMAIN files}
    \cup (IF startedWith THEN {Fil(outPath)} ELSE {})

\* build_file_tree has returned and main has not gone on yet
TreeBuilt == prog = "ingestion" /\ pc = "tree" /\ todo = <<>>

(***************************************************************************)
(* C1.  Two runs in succession write the same bytes, whatever the initial  *)
(* tree, whether or not the output file existed before the first run.      *)
(***************************************************************************)
C1_TwoRunsIdentical == (pc = "done" /\ run >= 2) => out = prev

(* C1, amended: two runs in succession write the same bytes when the output *)
(* file existed under the root before the first of them; when the first run *)
(* creates it there, the second run differs from it in the tree section     *)
(* alone, which has one more line (the output file's).                      *)
C1_TwoRunsIdenticalOnceOutputExists ==
    (pc = "done" /\ run >= 2) =>
        /\ prevWith => out = prev
        /\ ~prevWith =>
              /\ out[1] = prev[1]
              /\ Len(out[2].c) = Len(prev[2].c) + 1
              /\ SubSeq(out, 3, Len(out)) = SubSeq(prev, 3, Len(prev))

C1_Witness ==
    /\ pc = "done" /\ run = 2 /\ prevWith
    /\ Cardinality(FileIdx) >= 2
    /\ out = prev

(***************************************************************************)
(* C2.  No FILE block is written for an entry that resolves to the output  *)
(* file, a symbolic link to it included.                                   *)
(***************************************************************************)
C2_NoBlockForOutput == \A i \in FileIdx : Resolve(out[i].p) # outPath

(***************************************************************************)
(* C3.  After a dump there is exactly one FILE block for each regular file *)
(* that is classified Text and is not the output file, and none for any    *)
(* other; a Binary file has its line in the tree; an empty root gives the  *)
(* tree "." and no block.                                                  *)
(***************************************************************************)
C3_ExactlyTheTextFiles ==
    (prog = "ingestion" /\ pc = "done") =>
        /\ \A p \in DOMAIN files :
              BlockCount(p) = IF files[p].k = "file" /\ ~ClassifiedBinary(files[p]) THEN 1 ELSE 0
        /\ \A i \in FileIdx : out[i].p \in DOMAIN files
        /\ \A p \in DOMAIN files :
              (files[p].k = "file" /\ ClassifiedBinary(files[p])) =>
                  \E i \in 1..Len(tree) : tree[i] = Line(4 * (Len(p) - 1), Last(p), FALSE)
        /\ (dirs = {Root} /\ DOMAIN files = {} /\ ~(startedWith /\ Front(outPath) = Root)) =>
              (tree = <<Line(0, ".", FALSE)>> /\ FileIdx = {})

C3_Witness ==
    /\ prog = "ingestion" /\ pc = "done"
    /\ \E p, q \in DOMAIN files :
          /\ files[p] = LatinFile /\ BlockCount(p) = 1
          /\ files[q] = BinFile /\ BlockCount(q) = 0

(***************************************************************************)
(* C4.  The FILE blocks are in top-down order: the files of a directory by *)
(* name, before the files of its subdirectories, the subdirectories by     *)
(* name; whatever order the operating system lists the entries in.         *)
(***************************************************************************)
C4_BlocksInTopDownOrder ==
    prog = "ingestion" =>
        \A i, j \in 1..Len(BlockPaths) :
            i < j => TopDownBefore(Fil(BlockPaths[i]), Fil(BlockPaths[j]))

C4_Witness ==
    /\ prog = "ingestion" /\ pc = "done" /\ shuffled
    /\ Len(BlockPaths) = 2
    /\ Front(BlockPaths[1]) # Front(BlockPaths[2])
    /\ Front(BlockPaths[1]) # Root

(***************************************************************************)
(* C5.  For a window read without error, is_probably_binary answers Binary *)
(* exactly when the window holds a 0x00 byte or more than 30% of its bytes *)
(* are outside the text set; exactly 30% is Text, printable ASCII and      *)
(* newline alone is Text, the empty window is Text.                        *)
(***************************************************************************)
C5_ClassifyRule ==
    (prog = "classify" /\ verdict # "none" /\ sample.rd = "ok") =>
        /\ verdict = (IF RuleBinary(sample.c) THEN "binary" ELSE "text")
        /\ (~WindowHasNull(sample.c) /\ 10 * WindowNonText(sample.c) = 3 * WindowLen(sample.c))
              => verdict = "text"
        /\ (\A i \in 1..Len(sample.c) : sample.c[i].b \in (32..126) \cup {10}) => verdict = "text"
        /\ sample.c = <<>> => verdict = "text"

C5_Witness ==
    /\ prog = "classify" /\ verdict = "text" /\ sample.rd = "ok"
    /\ WindowLen(sample.c) = 1000
    /\ WindowNonText(sample.c) = 300

(***************************************************************************)
(* C6.  A file whose read fails, the content read after a Text             *)
(* classification included, leaves no FILE block and no other text in the  *)
(* output.                                                                 *)
(***************************************************************************)
C6_ReadFailureLeavesNoTrace ==
    /\ \A p \in DOMAIN files : (files[p].k = "file" /\ files[p].rd # "ok") => BlockCount(p) = 0
    /\ \A i \in 1..Len(out) : out[i].t # "err"

(***************************************************************************)
(* C7.  A file whose classification read raises never aborts the dump: it  *)
(* is classified Binary, every Text file after it in traversal order gets  *)
(* its block, and the dump runs to its completion message.                 *)
(***************************************************************************)
C7_UnreadableNeverAborts ==
    prog = "ingestion" =>
        /\ pc # "crashed"
        /\ pc = "aborted" => ~CanOpen(outPath)
        /\ (pc = "walk" /\ pending # <<>> /\ ~SkipSelf(cur \o <<Head(pending)>>)) =>
              is_probably_binary(Entry(cur \o <<Head(pending)>>)) \in {"binary", "text"}
        /\ \A p \in DOMAIN files : files[p] = DeniedFile => is_probably_binary(files[p]) = "binary"
        /\ pc = "done" =>
              \A p, q \in DOMAIN files :
                  (/\ files[p] = DeniedFile
                   /\ files[q].k = "file" /\ ~ClassifiedBinary(files[q])
                   /\ TopDownBefore(Fil(p), Fil(q)))
                  => BlockCount(q) = 1 /\ BlockCount(p) = 0

C7_Witness ==
    /\ prog = "ingestion" /\ pc = "done"
    /\ \E p, q \in DOMAIN files :
          /\ files[p] = DeniedFile /\ files[q] = TextFile
          /\ TopDownBefore(Fil(p), Fil(q))
          /\ Front(p) # Front(q)
          /\ BlockCount(q) = 1

\* what the content read of an entry gives when it succeeds: a token of text
ReadSucceeds(e) ==
    IF prog = "ingestion" THEN e.rd = "ok"
    ELSE e.k = "out" \/ (e.rd = "ok" /\ e.c # Latin)

ExpectedLine(x) ==
    IF x.d
    THEN (IF x.p = Root THEN Line(0, ".", FALSE) ELSE Line(4 * (Len(x.p) - 1), Last(x.p), TRUE))
    ELSE Line(4 * Len(Front(x.p)), Last(x.p), FALSE)

(***************************************************************************)
(* C9.  build_file_tree gives "." and then one line for each directory and *)
(* each file: a directory at depth d >= 1 as its name and "/" after        *)
(* 4*(d-1) spaces, a file of a directory at depth d as its name after 4*d  *)
(* spaces; a directory's line is followed by its files in order of name,   *)
(* then by its subdirectories.                                             *)
(***************************************************************************)
C9_TreeLines ==
    TreeBuilt =>
        /\ Len(tree) = Cardinality(ListedEntries)
        /\ tree[1] = Line(0, ".", FALSE)
        /\ \A x \in ListedEntries :
              tree[1 + Cardinality({y \in ListedEntries : y # x /\ TopDownBefore(y, x)})]
                  = ExpectedLine(x)

C9_Witness ==
    /\ TreeBuilt
    /\ \E i \in 1..Len(tree) : tree[i] = Line(8, "a.md", FALSE)
    /\ \E i \in 1..Len(tree) : tree[i] = Line(4, "lib", TRUE)
    /\ \E i \in 1..Len(tree) : tree[i] = Line(0, "k.txt", FALSE)

(***************************************************************************)
(* C10.  dump_py.py writes the same sequence of FILE blocks whatever order *)
(* the operating system lists entries in: build.zig of the root first, no  *)
(* path twice, nothing from under a directory of SKIP_DIRS, the rest in    *)
(* top-down order by name.                                                 *)
(***************************************************************************)
C10_PyBlocksInFixedOrder ==
    (prog = "dump_py" /\ pc = "done") =>
        LET B == BlockPaths
            first == IF <<"build.zig">> \in DOMAIN files THEN 2 ELSE 1
        IN /\ <<"build.zig">> \in DOMAIN files => (Len(B) >= 1 /\ B[1] = <<"build.zig">>)
           /\ \A i, j \in 1..Len(B) : B[i] = B[j] => i = j
           /\ \A i \in 1..Len(B) : \A k \in 1..(Len(B[i]) - 1) : B[i][k] \notin SKIP_DIRS
           /\ \A i, j \in first..Len(B) : i < j => TopDownBefore(Fil(B[i]), Fil(B[j]))

====
